---- MODULE Spec2Model ----
(***************************************************************************)
(* Model of the Cortex analytics documentation exporter:                   *)
(*   get_analytics_csv.py     - fetch the alert reference, parse every     *)
(*                              topic into rows, write the CSV             *)
(*   google_sheets_export.py  - push the tables into a Google spreadsheet  *)
(*                                                                         *)
(* A Python str is a sequence of one-character strings, so that `in`,      *)
(* strip() and split() are computed character by character.  T maps each   *)
(* literal the model uses to that sequence.                                *)
(***************************************************************************)
EXTENDS Integers, Sequences, FiniteSets, TLC

\* names begin
\* get_analytics_csv.py:216-246, the keys of the sources dict, in order
SourceNames ==
  << "AWS Audit Log", "AWS Flow Log", "AWS OCSF Flow Logs", "Azure Audit Log",
     "Azure Flow Log", "Azure SignIn Log", "AzureAD", "AzureAD Audit Log",
     "Box Audit Log", "DropBox", "Duo", "Gcp Audit Log", "Gcp Flow Log",
     "Google Workspace Audit Logs", "Google Workspace Authentication",
     "Health Monitoring Data", "Office 365 Audit", "Okta", "Okta Audit Log",
     "OneLogin", "Palo Alto Networks Global Protect",
     "Palo Alto Networks Platform Logs", "Palo Alto Networks Url Logs",
     "PingOne", "Third-Party Firewalls", "Third-Party VPNs",
     "Windows Event Collector", "XDR Agent",
     "XDR Agent with eXtended Threat Hunting (XTH)" >>

\* get_analytics_csv.py:117-158, the column headers of the DataFrame, in order
headers ==
  << "Name", "Variant of", "Severity", "Activation Period", "Training Period",
     "Test Period", "Deduplication Period", "Detection Modules",
     "Detector Tags", "ATT&CK Tactic", "ATT&CK Technique",
     "AWS Audit Log", "AWS Flow Log", "AWS OCSF Flow Logs", "Azure Audit Log",
     "Azure Flow Log", "Azure SignIn Log", "AzureAD", "AzureAD Audit Log",
     "Box Audit Log", "DropBox", "Duo", "Gcp Audit Log", "Gcp Flow Log",
     "Google Workspace Audit Logs", "Google Workspace Authentication",
     "Health Monitoring Data", "Office 365 Audit", "Okta", "Okta Audit Log",
     "OneLogin", "Palo Alto Networks Global Protect",
     "Palo Alto Networks Platform Logs", "Palo Alto Networks Url Logs",
     "PingOne", "Third-Party Firewalls", "Third-Party VPNs",
     "Windows Event Collector", "XDR Agent",
     "XDR Agent with eXtended Threat Hunting (XTH)" >>
\* names end

\* T-table begin
T ==
     ("X" :> <<"X">>)
  @@ ("XDR Agent" :> <<"X", "D", "R", " ", "A", "g", "e", "n", "t">>)
  @@ ("XTH" :> <<"X", "T", "H">>)
  @@ ("eXtended Threat Hunting (XTH)" :> <<"e", "X", "t", "e", "n", "d", "e", "d", " ", "T", "h", "r", "e", "a", "t", " ", "H", "u", "n", "t", "i", "n", "g", " ", "(", "X", "T", "H", ")">>)
  @@ (")" :> <<")">>)
  @@ ("Severity" :> <<"S", "e", "v", "e", "r", "i", "t", "y">>)
  @@ ("Activation Period" :> <<"A", "c", "t", "i", "v", "a", "t", "i", "o", "n", " ", "P", "e", "r", "i", "o", "d">>)
  @@ ("Training Period" :> <<"T", "r", "a", "i", "n", "i", "n", "g", " ", "P", "e", "r", "i", "o", "d">>)
  @@ ("Test Period" :> <<"T", "e", "s", "t", " ", "P", "e", "r", "i", "o", "d">>)
  @@ ("Deduplication Period" :> <<"D", "e", "d", "u", "p", "l", "i", "c", "a", "t", "i", "o", "n", " ", "P", "e", "r", "i", "o", "d">>)
  @@ ("Required Data" :> <<"R", "e", "q", "u", "i", "r", "e", "d", " ", "D", "a", "t", "a">>)
  @@ ("Detector Tags" :> <<"D", "e", "t", "e", "c", "t", "o", "r", " ", "T", "a", "g", "s">>)
  @@ ("Detection Modules" :> <<"D", "e", "t", "e", "c", "t", "i", "o", "n", " ", "M", "o", "d", "u", "l", "e", "s">>)
  @@ ("ATT&CK Tactic" :> <<"A", "T", "T", "&", "C", "K", " ", "T", "a", "c", "t", "i", "c">>)
  @@ ("ATT&CK Technique" :> <<"A", "T", "T", "&", "C", "K", " ", "T", "e", "c", "h", "n", "i", "q", "u", "e">>)
  @@ ("Variations" :> <<"V", "a", "r", "i", "a", "t", "i", "o", "n", "s">>)
  @@ ("14 Days" :> <<"1", "4", " ", "D", "a", "y", "s">>)
  @@ ("30 Days" :> <<"3", "0", " ", "D", "a", "y", "s">>)
  @@ ("N/A" :> <<"N", "/", "A">>)
  @@ ("1 Day" :> <<"1", " ", "D", "a", "y">>)
  @@ ("Execution (TA0002)" :> <<"E", "x", "e", "c", "u", "t", "i", "o", "n", " ", "(", "T", "A", "0", "0", "0", "2", ")">>)
  @@ ("Phishing (T1566)Spearphishing (T1566.001)" :> <<"P", "h", "i", "s", "h", "i", "n", "g", " ", "(", "T", "1", "5", "6", "6", ")", "S", "p", "e", "a", "r", "p", "h", "i", "s", "h", "i", "n", "g", " ", "(", "T", "1", "5", "6", "6", ".", "0", "0", "1", ")">>)
  @@ ("High" :> <<"H", "i", "g", "h">>)
  @@ ("Identity Analytics" :> <<"I", "d", "e", "n", "t", "i", "t", "y", " ", "A", "n", "a", "l", "y", "t", "i", "c", "s">>)
  @@ ("EDR" :> <<"E", "D", "R">>)
  @@ ("XDR Agent, Okta" :> <<"X", "D", "R", " ", "A", "g", "e", "n", "t", ",", " ", "O", "k", "t", "a">>)
  @@ ("\n Severity " :> <<"\n", " ", "S", "e", "v", "e", "r", "i", "t", "y", " ">>)
  @@ (" Low\n" :> <<" ", "L", "o", "w", "\n">>)
  @@ ("XDR Agent with eXtended Threat Hunting (XTH)" :> <<"X", "D", "R", " ", "A", "g", "e", "n", "t", " ", "w", "i", "t", "h", " ", "e", "X", "t", "e", "n", "d", "e", "d", " ", "T", "h", "r", "e", "a", "t", " ", "H", "u", "n", "t", "i", "n", "g", " ", "(", "X", "T", "H", ")">>)
  @@ ("Okta Audit Log" :> <<"O", "k", "t", "a", " ", "A", "u", "d", "i", "t", " ", "L", "o", "g">>)
  @@ (" " :> <<" ">>)
  @@ ("Medium" :> <<"M", "e", "d", "i", "u", "m">>)
  @@ ("XDR Agent (XTH)" :> <<"X", "D", "R", " ", "A", "g", "e", "n", "t", " ", "(", "X", "T", "H", ")">>)
  @@ ("Cloud" :> <<"C", "l", "o", "u", "d">>)
  @@ ("Persistence (TA0003)" :> <<"P", "e", "r", "s", "i", "s", "t", "e", "n", "c", "e", " ", "(", "T", "A", "0", "0", "0", "3", ")">>)
  @@ ("Phishing (T1566)" :> <<"P", "h", "i", "s", "h", "i", "n", "g", " ", "(", "T", "1", "5", "6", "6", ")">>)
  @@ ("Okta" :> <<"O", "k", "t", "a">>)
  @@ ("Low" :> <<"L", "o", "w">>)
  @@ ("Alert A" :> <<"A", "l", "e", "r", "t", " ", "A">>)
  @@ ("Alert B" :> <<"A", "l", "e", "r", "t", " ", "B">>)
  @@ ("B with admin" :> <<"B", " ", "w", "i", "t", "h", " ", "a", "d", "m", "i", "n">>)
  @@ ("See also" :> <<"S", "e", "e", " ", "a", "l", "s", "o">>)
  @@ ("B from cloud" :> <<"B", " ", "f", "r", "o", "m", " ", "c", "l", "o", "u", "d">>)
  @@ ("Alert C" :> <<"A", "l", "e", "r", "t", " ", "C">>)
  @@ ("Alert D" :> <<"A", "l", "e", "r", "t", " ", "D">>)
  @@ ("Variations are not documented" :> <<"V", "a", "r", "i", "a", "t", "i", "o", "n", "s", " ", "a", "r", "e", " ", "n", "o", "t", " ", "d", "o", "c", "u", "m", "e", "n", "t", "e", "d">>)
  @@ ("Alert E" :> <<"A", "l", "e", "r", "t", " ", "E">>)
  @@ ("E rare" :> <<"E", " ", "r", "a", "r", "e">>)
  @@ ("Alert F" :> <<"A", "l", "e", "r", "t", " ", "F">>)
  @@ ("Alert G" :> <<"A", "l", "e", "r", "t", " ", "G">>)
  @@ ("Overview" :> <<"O", "v", "e", "r", "v", "i", "e", "w">>)
  @@ ("G one" :> <<"G", " ", "o", "n", "e">>)
  @@ ("G two" :> <<"G", " ", "t", "w", "o">>)
  @@ ("Alert H" :> <<"A", "l", "e", "r", "t", " ", "H">>)
  @@ ("Alert I" :> <<"A", "l", "e", "r", "t", " ", "I">>)
  @@ ("No table" :> <<"N", "o", " ", "t", "a", "b", "l", "e">>)
  @@ ("Alert J" :> <<"A", "l", "e", "r", "t", " ", "J">>)
  @@ ("J one" :> <<"J", " ", "o", "n", "e">>)
  @@ (" with " :> <<" ", "w", "i", "t", "h", " ">>)
  @@ (", " :> <<",", " ">>)
  @@ (" Audit Log" :> <<" ", "A", "u", "d", "i", "t", " ", "L", "o", "g">>)
  @@ ("AzureAD" :> <<"A", "z", "u", "r", "e", "A", "D">>)
  @@ ("okta" :> <<"o", "k", "t", "a">>)
  @@ ("Initial Access (TA0001)" :> <<"I", "n", "i", "t", "i", "a", "l", " ", "A", "c", "c", "e", "s", "s", " ", "(", "T", "A", "0", "0", "0", "1", ")">>)
  @@ ("Phishing: Link(T1566.002)" :> <<"P", "h", "i", "s", "h", "i", "n", "g", ":", " ", "L", "i", "n", "k", "(", "T", "1", "5", "6", "6", ".", "0", "0", "2", ")">>)
  @@ ("\n  " :> <<"\n", " ", " ">>)
  @@ ("Name" :> <<"N", "a", "m", "e">>)
  @@ ("Variant of" :> <<"V", "a", "r", "i", "a", "n", "t", " ", "o", "f">>)
  @@ ("AWS Audit Log" :> <<"A", "W", "S", " ", "A", "u", "d", "i", "t", " ", "L", "o", "g">>)
  @@ ("AWS Flow Log" :> <<"A", "W", "S", " ", "F", "l", "o", "w", " ", "L", "o", "g">>)
  @@ ("AWS OCSF Flow Logs" :> <<"A", "W", "S", " ", "O", "C", "S", "F", " ", "F", "l", "o", "w", " ", "L", "o", "g", "s">>)
  @@ ("Azure Audit Log" :> <<"A", "z", "u", "r", "e", " ", "A", "u", "d", "i", "t", " ", "L", "o", "g">>)
  @@ ("Azure Flow Log" :> <<"A", "z", "u", "r", "e", " ", "F", "l", "o", "w", " ", "L", "o", "g">>)
  @@ ("Azure SignIn Log" :> <<"A", "z", "u", "r", "e", " ", "S", "i", "g", "n", "I", "n", " ", "L", "o", "g">>)
  @@ ("AzureAD Audit Log" :> <<"A", "z", "u", "r", "e", "A", "D", " ", "A", "u", "d", "i", "t", " ", "L", "o", "g">>)
  @@ ("Box Audit Log" :> <<"B", "o", "x", " ", "A", "u", "d", "i", "t", " ", "L", "o", "g">>)
  @@ ("DropBox" :> <<"D", "r", "o", "p", "B", "o", "x">>)
  @@ ("Duo" :> <<"D", "u", "o">>)
  @@ ("Gcp Audit Log" :> <<"G", "c", "p", " ", "A", "u", "d", "i", "t", " ", "L", "o", "g">>)
  @@ ("Gcp Flow Log" :> <<"G", "c", "p", " ", "F", "l", "o", "w", " ", "L", "o", "g">>)
  @@ ("Google Workspace Audit Logs" :> <<"G", "o", "o", "g", "l", "e", " ", "W", "o", "r", "k", "s", "p", "a", "c", "e", " ", "A", "u", "d", "i", "t", " ", "L", "o", "g", "s">>)
  @@ ("Google Workspace Authentication" :> <<"G", "o", "o", "g", "l", "e", " ", "W", "o", "r", "k", "s", "p", "a", "c", "e", " ", "A", "u", "t", "h", "e", "n", "t", "i", "c", "a", "t", "i", "o", "n">>)
  @@ ("Health Monitoring Data" :> <<"H", "e", "a", "l", "t", "h", " ", "M", "o", "n", "i", "t", "o", "r", "i", "n", "g", " ", "D", "a", "t", "a">>)
  @@ ("Office 365 Audit" :> <<"O", "f", "f", "i", "c", "e", " ", "3", "6", "5", " ", "A", "u", "d", "i", "t">>)
  @@ ("OneLogin" :> <<"O", "n", "e", "L", "o", "g", "i", "n">>)
  @@ ("Palo Alto Networks Global Protect" :> <<"P", "a", "l", "o", " ", "A", "l", "t", "o", " ", "N", "e", "t", "w", "o", "r", "k", "s", " ", "G", "l", "o", "b", "a", "l", " ", "P", "r", "o", "t", "e", "c", "t">>)
  @@ ("Palo Alto Networks Platform Logs" :> <<"P", "a", "l", "o", " ", "A", "l", "t", "o", " ", "N", "e", "t", "w", "o", "r", "k", "s", " ", "P", "l", "a", "t", "f", "o", "r", "m", " ", "L", "o", "g", "s">>)
  @@ ("Palo Alto Networks Url Logs" :> <<"P", "a", "l", "o", " ", "A", "l", "t", "o", " ", "N", "e", "t", "w", "o", "r", "k", "s", " ", "U", "r", "l", " ", "L", "o", "g", "s">>)
  @@ ("PingOne" :> <<"P", "i", "n", "g", "O", "n", "e">>)
  @@ ("Third-Party Firewalls" :> <<"T", "h", "i", "r", "d", "-", "P", "a", "r", "t", "y", " ", "F", "i", "r", "e", "w", "a", "l", "l", "s">>)
  @@ ("Third-Party VPNs" :> <<"T", "h", "i", "r", "d", "-", "P", "a", "r", "t", "y", " ", "V", "P", "N", "s">>)
  @@ ("Windows Event Collector" :> <<"W", "i", "n", "d", "o", "w", "s", " ", "E", "v", "e", "n", "t", " ", "C", "o", "l", "l", "e", "c", "t", "o", "r">>)
\* T-table end

(***************************************************************************)
(* Python str operations                                                   *)
(***************************************************************************)
Range(s) == {s[i] : i \in DOMAIN s}

\* the element of a one-element set: Only({e(x) : x \in {v}}) is e(v) with v
\* computed once
Only(S) == CHOOSE x \in S : TRUE

\* `needle in hay` on two str values
In(needle, hay) ==
  \E n \in {needle}, h \in {hay} :
     \E i \in 0..(Len(h) - Len(n)) : \A j \in 1..Len(n) : h[i + j] = n[j]

IsSpace(c) == c \in {" ", "\t", "\n"}

\* str.strip()
strip(s) ==
  Only({ IF keep = {} THEN <<>>
         ELSE SubSeq(v, CHOOSE i \in keep : \A j \in keep : i <= j,
                        CHOOSE i \in keep : \A j \in keep : i >= j) :
         <<v, keep>> \in { <<w, {i \in 1..Len(w) : ~IsSpace(w[i])}>> : w \in {s} } })

\* str.split(c) for a one-character separator
RECURSIVE split(_, _)
split(s, c) ==
  Only({ IF hits = {} THEN <<v>>
         ELSE Only({ <<SubSeq(v, 1, k - 1)>> \o split(SubSeq(v, k + 1, Len(v)), c) :
                     k \in {CHOOSE i \in hits : \A j \in hits : i <= j} }) :
         <<v, hits>> \in { <<w, {i \in 1..Len(w) : w[i] = c}>> : w \in {s} } })

\* the concatenation of a list of str
RECURSIVE Concat(_)
Concat(ss) ==
  Only({ IF v = <<>> THEN <<>> ELSE Head(v) \o Concat(Tail(v)) : v \in {ss} })

(***************************************************************************)
(* parse_topics: the data-source columns (get_analytics_csv.py:216-258)    *)
(***************************************************************************)
X == T["X"]
Unmarked == <<>>

XDRAgent == "XDR Agent"
XDRAgentXTH == "XDR Agent with eXtended Threat Hunting (XTH)"

\* lines 248-250: every key that occurs in the Required Data text is marked
MarkLoop_WholeText(required_data) ==
  Only({ [k \in Range(SourceNames) |-> IF rd = T[k] THEN X ELSE Unmarked] :
         rd \in {required_data} })

MarkLoop(required_data) ==
  Only({ [k \in Range(SourceNames) |-> IF In(T[k], rd) THEN X ELSE Unmarked] :
         rd \in {required_data} })

\* lines 252-256: the agent without XTH marks both agent columns, anything
\* else clears the plain agent column
AgentRule_OnlyBase(s, required_data) ==
  IF In(T["XDR Agent"], required_data) /\ ~In(T["XTH"], required_data)
  THEN [s EXCEPT ![XDRAgent] = X]
  ELSE [s EXCEPT ![XDRAgent] = Unmarked]

AgentRule(s, required_data) ==
  IF In(T["XDR Agent"], required_data) /\ ~In(T["XTH"], required_data)
  THEN [s EXCEPT ![XDRAgent] = X, ![XDRAgentXTH] = X]
  ELSE [s EXCEPT ![XDRAgent] = Unmarked]

\* lines 257-258
XthRule(s, required_data) ==
  IF In(T["eXtended Threat Hunting (XTH)"], required_data)
  THEN [s EXCEPT ![XDRAgentXTH] = X]
  ELSE s

\* lines 216-258: the sources dict as it is merged into a row
Sources(required_data) ==
  Only({ XthRule(AgentRule(MarkLoop(rd), rd), rd) : rd \in {required_data} })

(***************************************************************************)
(* The fetched markup.  A topic is its title and the elements of its HTML  *)
(* in document order; a table element holds the td texts of its rows.      *)
(***************************************************************************)
Table(rows) == [tag |-> "table", cls |-> "", text |-> <<>>, rows |-> rows]
H2(text)    == [tag |-> "h2", cls |-> "", text |-> text, rows |-> <<>>]
P(text)     == [tag |-> "p", cls |-> "", text |-> text, rows |-> <<>>]
A(cls, text) == [tag |-> "a", cls |-> cls, text |-> text, rows |-> <<>>]

Topic(title, body) == [title |-> title, body |-> body]

\* a Python call either returns a value or raises
Ok(v)      == [raised |-> FALSE, exc |-> "", value |-> v]
Raise(exc) == [raised |-> TRUE, exc |-> exc, value |-> <<>>]

\* soup.text: every string of the document, in order
ElemText(e) ==
  IF e.tag = "table" THEN Concat([r \in DOMAIN e.rows |-> Concat(e.rows[r])])
  ELSE e.text

SoupText(body) == Concat([k \in DOMAIN body |-> ElemText(body[k])])

\* the least index of a set of indices, 0 (None) when there is none
First(hits) ==
  IF hits = {} THEN 0 ELSE CHOOSE k \in hits : \A m \in hits : k <= m

\* lines 169-174 and 311-316: the stripped, non-empty td texts of every row
ExtractTable(rows) ==
  [r \in DOMAIN rows |->
     SelectSeq([c \in DOMAIN rows[r] |-> strip(rows[r][c])],
               LAMBDA ele : ele # <<>>)]

\* [x for x in table if x[0] == label][0][1]
Field(table, label) ==
  IF \E r \in DOMAIN table : table[r] = <<>> THEN Raise("IndexError")
  ELSE Only({ IF match = <<>> THEN Raise("IndexError")
              ELSE IF Len(match[1]) < 2 THEN Raise("IndexError")
              ELSE Ok(match[1][2]) :
              match \in {SelectSeq(table, LAMBDA x : x[1] = label)} })

\* lines 184-191: try: ... except: ''
OptionalField_Raising(table, label) == Field(table, label)

OptionalField(table, label) ==
  Only({ IF f.raised THEN Ok(<<>>) ELSE f : f \in {Field(table, label)} })

\* lines 195-198 and 322-325: split(')') and put the ')' back
MitreList_KeepEmpty(text) ==
  Only({ [k \in DOMAIN pieces |-> strip(pieces[k]) \o T[")"]] :
         pieces \in {split(text, ")")} })

MitreList(text) ==
  Only({ [k \in DOMAIN pieces |-> strip(pieces[k]) \o T[")"]] :
         pieces \in {SelectSeq(split(text, ")"), LAMBDA t : t # <<>>)} })

(***************************************************************************)
(* parse_topics and variations: the rows of one topic                      *)
(***************************************************************************)
\* lines 201-213 and 271-283: the keys of the row dict before the sources
rowKeys_WithRequiredData ==
  << "Name", "Variant of", "Severity", "Activation Period", "Training Period",
     "Test Period", "Deduplication Period", "Detection Modules",
     "Detector Tags", "ATT&CK Tactic", "ATT&CK Technique", "Required Data" >>

rowKeys ==
  << "Name", "Variant of", "Severity", "Activation Period", "Training Period",
     "Test Period", "Deduplication Period", "Detection Modules",
     "Detector Tags", "ATT&CK Tactic", "ATT&CK Technique" >>

\* the labels whose lookup is not guarded by try/except (lines 178-183, 195, 197)
RequiredLabels ==
  { "Severity", "Activation Period", "Training Period", "Test Period",
    "Deduplication Period", "Required Data", "ATT&CK Tactic",
    "ATT&CK Technique" }

\* lines 319, 322, 324: the labels variations() reads from a variation's table
VariationLabels == { "Severity", "ATT&CK Tactic", "ATT&CK Technique" }

LabelText(l) ==
  CASE l = "Severity" -> T["Severity"]
    [] l = "Activation Period" -> T["Activation Period"]
    [] l = "Training Period" -> T["Training Period"]
    [] l = "Test Period" -> T["Test Period"]
    [] l = "Deduplication Period" -> T["Deduplication Period"]
    [] l = "Required Data" -> T["Required Data"]
    [] l = "Detector Tags" -> T["Detector Tags"]
    [] l = "Detection Modules" -> T["Detection Modules"]
    [] l = "ATT&CK Tactic" -> T["ATT&CK Tactic"]
    [] l = "ATT&CK Technique" -> T["ATT&CK Technique"]

\* the cell pandas puts where a frame has no value
NaN == <<"NaN">>

\* row.update(sources): the dict handed to pd.DataFrame, keys in order
RowDict(fixed, src) ==
  Only({ [columns |-> rowKeys \o SourceNames,
          cells   |-> [c \in Range(rowKeys) \cup Range(SourceNames) |->
                         IF c \in DOMAIN f THEN f[c]
                         ELSE IF c \in DOMAIN s THEN s[c] ELSE NaN]] :
         f \in {fixed}, s \in {src} })

\* lines 177-213, 216-261: the locals of one iteration and the Primary row
ParsePrimary(title, table) ==
  IF \/ \E l \in RequiredLabels : Field(table, LabelText(l)).raised
     \/ OptionalField(table, LabelText("Detector Tags")).raised
     \/ OptionalField(table, LabelText("Detection Modules")).raised
  THEN Raise("IndexError")
  ELSE
    LET f(l) == Field(table, LabelText(l)).value
        tags == OptionalField(table, LabelText("Detector Tags")).value
        detection_modules ==
          OptionalField(table, LabelText("Detection Modules")).value
        src == Sources(f("Required Data"))
        fixed ==
          [ Name |-> title, Severity |-> f("Severity") ]
          @@ ("Variant of" :> <<>>)
          @@ ("Activation Period" :> f("Activation Period"))
          @@ ("Training Period" :> f("Training Period"))
          @@ ("Test Period" :> f("Test Period"))
          @@ ("Deduplication Period" :> f("Deduplication Period"))
          @@ ("Detection Modules" :> detection_modules)
          @@ ("Detector Tags" :> tags)
          @@ ("ATT&CK Tactic" :> MitreList(f("ATT&CK Tactic")))
          @@ ("ATT&CK Technique" :> MitreList(f("ATT&CK Technique")))
    IN  Ok([fixed |-> fixed, sources |-> src,
            required_data |-> f("Required Data")])

IsTable(e) == e.tag = "table"

\* soup.table (from = 0) and var.find_next('table'): the first table after
\* position `from`
FindNextTable(body, from) ==
  First({k \in DOMAIN body : k > from /\ IsTable(body[k])})

IsVariationsHeading(e) == e.tag = "h2" /\ In(T["Variations"], e.text)

\* line 304: soup.find(lambda tag: tag.name == 'h2' and 'Variations' in tag.text)
FindHeading(body) ==
  First({k \in DOMAIN body : IsVariationsHeading(body[k])})

IsVariationLink(e) == e.tag = "a" /\ e.cls = "ft-expanding-block-link"

\* line 305: find_all_next('a', class_='ft-expanding-block-link')
VariationLinks(body, h) ==
  SelectSeq([k \in DOMAIN body |-> k],
            LAMBDA k : k > h /\ IsVariationLink(body[k]))

\* lines 311-332: one variation, read from the table that follows its link
VariationFields(detector, table) ==
  IF \E l \in VariationLabels : Field(table, LabelText(l)).raised
  THEN Raise("IndexError")
  ELSE Ok([detector  |-> detector,
           severity  |-> Field(table, T["Severity"]).value,
           tactic    |-> MitreList(Field(table, T["ATT&CK Tactic"]).value),
           technique |-> MitreList(Field(table, T["ATT&CK Technique"]).value)])

Variation(body, k) ==
  Only({ IF tbl = 0 THEN Raise("AttributeError")
         ELSE Only({ VariationFields(body[k].text, table) :
                     table \in {ExtractTable(body[tbl].rows)} }) :
         tbl \in {FindNextTable(body, k)} })

\* lines 292-335
FirstRaised(res) ==
  res[CHOOSE n \in DOMAIN res :
        res[n].raised /\ \A m \in DOMAIN res : res[m].raised => n <= m]

variations(body) ==
  Only({ IF h = 0 THEN Raise("AttributeError")
         ELSE Only({ IF \E n \in DOMAIN res : res[n].raised
                     THEN Raise(FirstRaised(res).exc)
                     ELSE Ok([n \in DOMAIN res |-> res[n].value]) :
                     res \in { [n \in DOMAIN links |-> Variation(body, links[n])] :
                               links \in {VariationLinks(body, h)} } }) :
         h \in {FindHeading(body)} })

\* lines 271-286: the row of one variation
VariationRow_NoSources(detector, prim, v) ==
  RowDict([ prim.fixed EXCEPT !["Name"] = v.detector,
                              !["Variant of"] = detector,
                              !["Severity"] = v.severity,
                              !["ATT&CK Tactic"] = v.tactic,
                              !["ATT&CK Technique"] = v.technique ],
          <<>>)

VariationRow_ParentSeverity(detector, prim, v) ==
  RowDict([ prim.fixed EXCEPT !["Name"] = v.detector,
                              !["Variant of"] = detector,
                              !["ATT&CK Tactic"] = v.tactic,
                              !["ATT&CK Technique"] = v.technique ],
          prim.sources)

VariationRow_TopLevel(detector, prim, v) ==
  RowDict([ prim.fixed EXCEPT !["Name"] = v.detector,
                              !["Severity"] = v.severity,
                              !["ATT&CK Tactic"] = v.tactic,
                              !["ATT&CK Technique"] = v.technique ],
          prim.sources)

VariationRow(detector, prim, v) ==
  RowDict([ prim.fixed EXCEPT !["Name"] = v.detector,
                              !["Variant of"] = detector,
                              !["Severity"] = v.severity,
                              !["ATT&CK Tactic"] = v.tactic,
                              !["ATT&CK Technique"] = v.technique ],
          prim.sources)

\* lines 166-288: one iteration of the loop over the topics: the row dicts it
\* concatenates to df, or the exception that ends parse_topics
TopicRows(t, prim) ==
  IF prim.raised THEN prim
  ELSE IF ~In(T["Variations"], SoupText(t.body))
  THEN Ok(<<RowDict(prim.value.fixed, prim.value.sources)>>)
  ELSE Only({ IF variants.raised THEN variants
              ELSE Ok(<<RowDict(prim.value.fixed, prim.value.sources)>>
                      \o [n \in DOMAIN variants.value |->
                            VariationRow(t.title, prim.value, variants.value[n])]) :
              variants \in {variations(t.body)} })

ParseTopic_SkipFailed(t) ==
  Only({ IF first = 0 THEN Ok(<<>>)
         ELSE Only({ IF rows.raised THEN Ok(<<>>) ELSE rows :
                     rows \in { TopicRows(t, prim) :
                       prim \in { ParsePrimary(t.title, table) :
                         table \in {ExtractTable(t.body[first].rows)} } } }) :
         first \in {FindNextTable(t.body, 0)} })

ParseTopic(t) ==
  Only({ IF first = 0 THEN Raise("AttributeError")
         ELSE Only({ TopicRows(t, prim) :
                     prim \in { ParsePrimary(t.title, table) :
                                table \in {ExtractTable(t.body[first].rows)} } }) :
         first \in {FindNextTable(t.body, 0)} })

\* pd.concat([df, new_df], ignore_index=True): the union of the columns in
\* order of first appearance, absent cells NaN
Pad(cols, cells) ==
  [c \in cols |-> IF c \in DOMAIN cells THEN cells[c] ELSE NaN]

concat(df, new_df) ==
  Only({ [columns |-> cols,
          rows    |-> [k \in DOMAIN a.rows |-> Pad(Range(cols), a.rows[k])]
                      \o [k \in DOMAIN b.rows |-> Pad(Range(cols), b.rows[k])]] :
         <<a, b, cols>> \in
           { <<x, y, x.columns \o
                     SelectSeq(y.columns, LAMBDA c : c \notin Range(x.columns))>> :
             x \in {df}, y \in {new_df} } })

\* pd.DataFrame(row): a frame of one row
Frame(row) == [columns |-> row.columns, rows |-> <<row.cells>>]

RECURSIVE ConcatAll(_, _)
ConcatAll(df, rows) ==
  IF rows = <<>> THEN df
  ELSE ConcatAll(concat(df, Frame(Head(rows))), Tail(rows))

(***************************************************************************)
(* The topics the documentation server may return                          *)
(***************************************************************************)
Periods ==
  << <<T["Activation Period"], T["14 Days"]>>,
     <<T["Training Period"], T["30 Days"]>>,
     <<T["Test Period"], T["N/A"]>>,
     <<T["Deduplication Period"], T["1 Day"]>> >>

Mitre ==
  << <<T["ATT&CK Tactic"], T["Execution (TA0002)"]>>,
     <<T["ATT&CK Technique"],
       T["Phishing (T1566)Spearphishing (T1566.001)"]>> >>

\* every label, the optional ones included
FullTable ==
  << <<T["Severity"], T["High"]>> >> \o Periods
  \o << <<T["Detection Modules"], T["Identity Analytics"]>>,
        <<T["Detector Tags"], T["EDR"]>> >>
  \o Mitre \o << <<T["Required Data"], T["XDR Agent, Okta"]>> >>

\* no optional label; the td texts padded as the markup pads them
PlainTable ==
  << <<T["\n Severity "], T[" Low\n"]>> >> \o Periods \o Mitre
  \o << <<T["Required Data"],
          T["XDR Agent with eXtended Threat Hunting (XTH)"]>> >>

NoSeverityTable ==
  Periods \o Mitre \o << <<T["Required Data"], T["Okta Audit Log"]>> >>

\* a row of empty cells, a row with an empty first cell, a label without a
\* value, a label given twice
EmptyRowTable == << <<T[" "], <<>>>> >> \o FullTable

OddTable ==
  << <<<<>>, T["Severity"], T["Medium"]>> >> \o Periods \o Mitre
  \o << <<T["Required Data"], T["XDR Agent (XTH)"]>>,
        <<T["Detector Tags"], T[" "]>>,
        <<T["Detection Modules"], T["Identity Analytics"]>>,
        <<T["Detection Modules"], T["Cloud"]>> >>

\* variation tables: the three labels variations() reads, and labels it ignores
VarTable1 ==
  << <<T["Severity"], T["Medium"]>>,
     <<T["Activation Period"], T["1 Day"]>>,
     <<T["Detector Tags"], T["Cloud"]>>,
     <<T["ATT&CK Tactic"], T["Persistence (TA0003)"]>>,
     <<T["ATT&CK Technique"], T["Phishing (T1566)"]>>,
     <<T["Required Data"], T["Okta"]>> >>

VarTable2 ==
  << <<T["Severity"], T["Low"]>> >> \o Mitre

VarTableNoSeverity == Mitre

Link == "ft-expanding-block-link"

TopicPool ==
  { Topic(T["Alert A"], <<Table(FullTable)>>),
    Topic(T["Alert B"],
          <<Table(PlainTable), H2(T["Variations"]),
            A(Link, T["B with admin"]), Table(VarTable1),
            A("xref", T["See also"]),
            A(Link, T["B from cloud"]), Table(VarTable2)>>),
    Topic(T["Alert C"], <<Table(NoSeverityTable)>>),
    Topic(T["Alert D"],
          <<Table(FullTable), P(T["Variations are not documented"])>>),
    Topic(T["Alert E"],
          <<Table(FullTable), H2(T["Variations"]),
            A(Link, T["E rare"]), Table(VarTableNoSeverity)>>),
    Topic(T["Alert F"], <<Table(OddTable), H2(T["Variations"])>>),
    Topic(T["Alert G"],
          <<A(Link, T["Overview"]), Table(PlainTable), H2(T["Variations"]),
            A(Link, T["G one"]), A(Link, T["G two"]), Table(VarTable2)>>),
    Topic(T["Alert H"], <<Table(EmptyRowTable)>>),
    Topic(T["Alert I"], <<P(T["No table"])>>),
    Topic(T["Alert J"],
          <<Table(FullTable), H2(T["Variations"]), A(Link, T["J one"])>>) }

(***************************************************************************)
(* main(): get_page_ids, get_topics, parse_toc, get_reader_topic_request,  *)
(* parse_topics, to_csv                                                    *)
(***************************************************************************)
MaxTopics == 2

Statuses == {200, 404, 500}

\* what resp.json() finds: the documented shape, some other JSON object (an
\* error payload), or a body that is not JSON
Bodies == {"expected", "error", "not_json"}

Requests == {"pretty-url", "toc", "topics"}

RECURSIVE TopicLists(_)
TopicLists(n) ==
  IF n = 0 THEN {<<>>}
  ELSE {Append(ts, t) : ts \in TopicLists(n - 1), t \in TopicPool}

NoResponse == [status |-> 0, body |-> "none"]

\* line 162: pd.DataFrame({}, columns=headers)
EmptyFrame == [columns |-> headers, rows |-> <<>>]

NoFrame == [columns |-> <<>>, rows |-> <<>>]

VARIABLES
  rd_pc, rd_in, rd_out,   \* the classifier on its own
  pc,            \* the statement of main() that runs next, or "exit"
  resp,          \* the response each request got
  doc_ids,       \* get_page_ids' result: the shape of the JSON
  toc,           \* get_topics' result: the shape and the number of toc entries
  detector_ids,  \* parse_toc's result: how many detectors it lists
  topics,        \* get_reader_topic_request's result
  i,             \* parse_topics: the topic the loop is at
  df,            \* parse_topics: the DataFrame
  rowInfo,       \* for each row of df, its kind and the topic it came from
  printed,       \* the requests whose error payload was printed
  uncaught,      \* the exception that ended the process, if one did
  exitCode,      \* the exit status, -1 while running
  csv,           \* the written file: its existence and its table
  ran,           \* the functions main() has called, in order
  gs_pc,         \* google_sheets_export: the call that runs next, or "exit"
  gs_env,        \* the credentials file, GOOGLE_SHEET_ID, the worksheets
  gs_in,         \* the arguments: the rows of df and the stats tables
  gs_k,          \* the table the loop over dynamic_ranges is at
  gs_cells,      \* the spreadsheet: for each cell, the run that wrote it
  gs_run,        \* the number of this run of the export
  gs_touched,    \* the worksheets this run has cleared or written
  gs_exit,       \* the exit status, -1 while running
  gs_cause,      \* the error this run reported, if it did
  mt_pc,         \* the tactic/technique split: "input", then "split"
  mt_in,         \* the units, the td text that packs them, the kind of table
  mt_out         \* the tactic and technique lists of the record

srcVars == <<rd_pc, rd_in, rd_out>>

mainVars == <<pc, resp, doc_ids, toc, detector_ids, topics, i, df, rowInfo,
              printed, uncaught, exitCode, csv, ran>>

sheetVars == <<gs_pc, gs_env, gs_in, gs_k, gs_cells, gs_run, gs_touched,
               gs_exit, gs_cause>>

mitreVars == <<mt_pc, mt_in, mt_out>>

vars == <<srcVars, mainVars, sheetVars, mitreVars>>

MitreIdle ==
  /\ mt_pc = "idle"
  /\ mt_in = [units |-> <<>>, text |-> <<>>, kind |-> "Primary"]
  /\ mt_out = [raised |-> FALSE, tactic |-> <<>>, technique |-> <<>>]

SourcesIdle ==
  /\ rd_pc = "idle"
  /\ rd_in = <<>>
  /\ rd_out = [k \in Range(SourceNames) |-> Unmarked]

MainInit ==
  /\ pc = "get_page_ids"
  /\ resp = [r \in Requests |-> NoResponse]
  /\ doc_ids = "none"
  /\ toc = [shape |-> "none", n |-> 0]
  /\ detector_ids = 0
  /\ topics = <<>>
  /\ i = 0
  /\ df = NoFrame
  /\ rowInfo = <<>>
  /\ printed = {}
  /\ uncaught = ""
  /\ exitCode = -1
  /\ csv = [written |-> FALSE, table |-> NoFrame]
  /\ ran = <<>>

\* an uncaught exception: the traceback, exit status 1
Die(exc) ==
  /\ pc' = "exit"
  /\ uncaught' = exc
  /\ exitCode' = 1

\* sys.exit(1)
SysExit ==
  /\ pc' = "exit"
  /\ exitCode' = 1
  /\ UNCHANGED uncaught

\* lines 12-35
get_page_ids ==
  /\ pc = "get_page_ids"
  /\ ran' = Append(ran, "get_page_ids")
  /\ \E st \in Statuses, b \in Bodies :
       /\ resp' = [resp EXCEPT !["pretty-url"] = [status |-> st, body |-> b]]
       /\ IF st # 200
          THEN IF b = "not_json"
               THEN Die("JSONDecodeError") /\ UNCHANGED <<printed, doc_ids>>
               ELSE /\ printed' = printed \cup {"pretty-url"}
                    /\ SysExit
                    /\ UNCHANGED doc_ids
          ELSE IF b = "not_json"
               THEN Die("JSONDecodeError") /\ UNCHANGED <<printed, doc_ids>>
               ELSE /\ doc_ids' = b
                    /\ pc' = "get_topics"
                    /\ UNCHANGED <<printed, uncaught, exitCode>>
  /\ UNCHANGED <<toc, detector_ids, topics, i, df, rowInfo, csv>>

\* lines 37-50: no look at resp.status_code
get_topics ==
  /\ pc = "get_topics"
  /\ ran' = Append(ran, "get_topics")
  /\ IF doc_ids # "expected"
     THEN Die("KeyError") /\ UNCHANGED <<resp, toc>>
     ELSE \E st \in Statuses, b \in Bodies, n \in 0..(MaxTopics + 1) :
            /\ resp' = [resp EXCEPT !["toc"] = [status |-> st, body |-> b]]
            /\ IF b = "not_json"
               THEN Die("JSONDecodeError") /\ UNCHANGED toc
               ELSE /\ toc' = [shape |-> b, n |-> IF b = "expected" THEN n ELSE 0]
                    /\ pc' = "parse_toc"
                    /\ UNCHANGED <<uncaught, exitCode>>
  /\ UNCHANGED <<doc_ids, detector_ids, topics, i, df, rowInfo, printed, csv>>

\* lines 52-74: one detector for every toc entry but the first
parse_toc ==
  /\ pc = "parse_toc"
  /\ ran' = Append(ran, "parse_toc")
  /\ IF toc.shape # "expected"
     THEN Die("KeyError") /\ UNCHANGED detector_ids
     ELSE /\ detector_ids' = IF toc.n > 1 THEN toc.n - 1 ELSE 0
          /\ pc' = "get_reader_topic_request"
          /\ UNCHANGED <<uncaught, exitCode>>
  /\ UNCHANGED <<resp, doc_ids, toc, topics, i, df, rowInfo, printed, csv>>

\* lines 76-103: the server answers with one topic for each one asked for; no
\* look at resp.status_code
get_reader_topic_request ==
  /\ pc = "get_reader_topic_request"
  /\ ran' = Append(ran, "get_reader_topic_request")
  /\ \E st \in Statuses, b \in Bodies, ts \in TopicLists(detector_ids) :
       /\ resp' = [resp EXCEPT !["topics"] = [status |-> st, body |-> b]]
       /\ IF b = "not_json"
          THEN Die("JSONDecodeError") /\ UNCHANGED topics
          ELSE IF b = "error"
          THEN Die("KeyError") /\ UNCHANGED topics
          ELSE /\ topics' = ts
               /\ pc' = "parse_topics"
               /\ UNCHANGED <<uncaught, exitCode>>
  /\ UNCHANGED <<doc_ids, toc, detector_ids, i, df, rowInfo, printed, csv>>

\* lines 105-162: parse_topics is entered, df is the empty frame
parse_topics ==
  /\ pc = "parse_topics"
  /\ ran' = Append(ran, "parse_topics")
  /\ df' = EmptyFrame
  /\ i' = 1
  /\ pc' = "for_t_in_topics"
  /\ UNCHANGED <<resp, doc_ids, toc, detector_ids, topics, rowInfo, printed,
                 uncaught, exitCode, csv>>

RowInfo(n, rows) ==
  [k \in DOMAIN rows |->
     [kind |-> IF k = 1 THEN "Primary" ELSE "Variation", topic |-> n]]

\* lines 165-288: one iteration; an exception ends parse_topics and main with it
for_t_in_topics ==
  /\ pc = "for_t_in_topics"
  /\ i <= Len(topics)
  /\ \E r \in {ParseTopic(topics[i])} :
         IF r.raised
         THEN /\ Die(r.exc)
              /\ df' = NoFrame
              /\ rowInfo' = <<>>
              /\ UNCHANGED i
         ELSE /\ df' = ConcatAll(df, r.value)
              /\ rowInfo' = rowInfo \o RowInfo(i, r.value)
              /\ i' = i + 1
              /\ UNCHANGED <<pc, uncaught, exitCode>>
  /\ UNCHANGED <<resp, doc_ids, toc, detector_ids, topics, printed, csv, ran>>

\* lines 290, 347-348: parse_topics returns df and main writes it
to_csv ==
  /\ pc = "for_t_in_topics"
  /\ i > Len(topics)
  /\ ran' = Append(ran, "to_csv")
  /\ csv' = [written |-> TRUE, table |-> df]
  /\ pc' = "exit"
  /\ exitCode' = 0
  /\ UNCHANGED <<resp, doc_ids, toc, detector_ids, topics, i, df, rowInfo,
                 printed, uncaught>>

(***************************************************************************)
(* google_sheets_export.py: authenticate_gspread and write_to_google_sheets *)
(* A run of the export is one process; the spreadsheet outlives it.  A      *)
(* worksheet is a grid of column groups and rows, a cell holds the number   *)
(* of the run that wrote it, 0 when it is empty.                            *)
(***************************************************************************)
MaxRows == 2

MaxStatRows == 2

MaxRuns == 2

\* lines 24-26
SummaryTab == "Summary Statistics"

DetectorsTab == "All Detectors"

\* lines 129-136: dynamic_ranges, in the order of the loop at line 141
StatFiles ==
  << "count_by_source.csv", "count_by_tactic.csv", "count_by_technique.csv",
     "count_by_tag.csv", "count_by_sev.csv", "count_by_module.csv" >>

\* the stats dicts a run may be given: file -> len(DataFrame); a dict may
\* lack a file
StatsPool ==
  { [f \in Range(StatFiles) |-> 1],
    [f \in Range(StatFiles) |-> MaxStatRows],
    [f \in Range(StatFiles) \ {"count_by_tactic.csv", "count_by_tag.csv"} |-> 1],
    [f \in {"count_by_source.csv"} |-> 0] }

\* len(stats.get(f, []))
StatLen(stats, f) == IF f \in DOMAIN stats THEN stats[f] ELSE 0

\* the last row a run can reach: count_by_module.csv starts at
\* 2 * (len + 1) + 6 and holds len + 1 rows
SummaryRows == 3 * MaxStatRows + 8

DetectorRows == MaxRows + 2

Cells ==
  ({SummaryTab} \X {"A", "D", "G"} \X (1..SummaryRows))
  \cup ({DetectorsTab} \X {"A", "N"} \X (1..DetectorRows))

\* lines 119-136: the top-left cell of each table
StatAnchor(stats, f) ==
  LET source_rows == StatLen(stats, "count_by_source.csv") + 1
      tactic_rows == StatLen(stats, "count_by_tactic.csv") + 1
      sev_rows == StatLen(stats, "count_by_sev.csv") + 1
      tag_start_row == source_rows + 3
      sev_start_row == tactic_rows + 3
      module_start_row == sev_start_row + sev_rows + 3
  IN  CASE f = "count_by_source.csv" -> <<"A", 1>>
        [] f = "count_by_tactic.csv" -> <<"D", 1>>
        [] f = "count_by_technique.csv" -> <<"G", 1>>
        [] f = "count_by_tag.csv" -> <<"A", tag_start_row>>
        [] f = "count_by_sev.csv" -> <<"D", sev_start_row>>
        [] f = "count_by_module.csv" -> <<"D", module_start_row>>

\* worksheet.update(range_name, values): the rows from the anchor down
Update(cells, tab, group, first, n, run) ==
  [c \in Cells |->
     IF c[1] = tab /\ c[2] = group /\ c[3] >= first /\ c[3] < first + n
     THEN run ELSE cells[c]]

\* lines 99-109: updateCells over the whole sheet with no values
ClearSheet(cells, tab) == [c \in Cells |-> IF c[1] = tab THEN 0 ELSE cells[c]]

Environments ==
  [credentials : BOOLEAN, sheet_id : {"", "1AbC"}, opens : BOOLEAN,
   tabs : SUBSET {SummaryTab, DetectorsTab}]

\* df holds at least one detector
Inputs == [rows : 1..MaxRows, stats : StatsPool]

SheetsIdle ==
  /\ gs_pc = "idle"
  /\ gs_env = [credentials |-> FALSE, sheet_id |-> "", opens |-> FALSE, tabs |-> {}]
  /\ gs_in = [rows |-> 1, stats |-> [f \in {"count_by_source.csv"} |-> 0]]
  /\ gs_k = 0
  /\ gs_cells = [c \in Cells |-> 0]
  /\ gs_run = 0
  /\ gs_touched = {}
  /\ gs_exit = -1
  /\ gs_cause = ""

\* the first run of the export against an empty spreadsheet
SheetsInit ==
  /\ MainInit
  /\ SourcesIdle
  /\ MitreIdle
  /\ gs_pc = "authenticate_gspread"
  /\ gs_env \in Environments
  /\ gs_in \in Inputs
  /\ gs_k = 0
  /\ gs_cells = [c \in Cells |-> 0]
  /\ gs_run = 1
  /\ gs_touched = {}
  /\ gs_exit = -1
  /\ gs_cause = ""

\* print(...); sys.exit(1)
Fail(cause) ==
  /\ gs_pc' = "exit"
  /\ gs_exit' = 1
  /\ gs_cause' = cause

Goto(next) ==
  /\ gs_pc' = next
  /\ UNCHANGED <<gs_exit, gs_cause>>

\* lines 47-71
authenticate_gspread ==
  /\ gs_pc = "authenticate_gspread"
  /\ IF ~gs_env.credentials THEN Fail("no_credentials")
     ELSE Goto("open_by_key")
  /\ UNCHANGED <<gs_env, gs_in, gs_k, gs_cells, gs_run, gs_touched>>

\* lines 82-89, 333-335: an unset id ends the run; so does an exception of
\* open_by_key, caught by the outer except
open_by_key ==
  /\ gs_pc = "open_by_key"
  /\ IF gs_env.sheet_id = "" THEN Fail("no_sheet_id")
     ELSE IF ~gs_env.opens THEN Fail("exception")
     ELSE Goto("summary_worksheet")
  /\ UNCHANGED <<gs_env, gs_in, gs_k, gs_cells, gs_run, gs_touched>>

\* lines 92-94, 272-274
summary_worksheet ==
  /\ gs_pc = "summary_worksheet"
  /\ IF SummaryTab \notin gs_env.tabs THEN Fail("summary_missing")
     ELSE Goto("clear")
  /\ UNCHANGED <<gs_env, gs_in, gs_k, gs_cells, gs_run, gs_touched>>

\* lines 97-110
clear ==
  /\ gs_pc = "clear"
  /\ gs_cells' = ClearSheet(gs_cells, SummaryTab)
  /\ gs_touched' = gs_touched \cup {SummaryTab}
  /\ gs_k' = 1
  /\ Goto("stats")
  /\ UNCHANGED <<gs_env, gs_in, gs_run>>

\* lines 141-151: one table of dynamic_ranges, written if stats has it
write_stat ==
  /\ gs_pc = "stats"
  /\ gs_k <= Len(StatFiles)
  /\ LET f == StatFiles[gs_k]
         at == StatAnchor(gs_in.stats, f)
     IN  IF f \in DOMAIN gs_in.stats
         THEN /\ gs_cells' = Update(gs_cells, SummaryTab, at[1], at[2],
                                    gs_in.stats[f] + 1, gs_run)
              /\ gs_touched' = gs_touched \cup {SummaryTab}
         ELSE UNCHANGED <<gs_cells, gs_touched>>
  /\ gs_k' = gs_k + 1
  /\ Goto("stats")
  /\ UNCHANGED <<gs_env, gs_in, gs_run>>

\* lines 267-279: the formats are sent, then the detectors tab is looked up
detectors_worksheet ==
  /\ gs_pc = "stats"
  /\ gs_k > Len(StatFiles)
  /\ IF DetectorsTab \notin gs_env.tabs THEN Fail("detectors_missing")
     ELSE Goto("update_detectors")
  /\ UNCHANGED <<gs_env, gs_in, gs_k, gs_cells, gs_run, gs_touched>>

\* lines 282-330: A1, the data from A3 down, the formulas of N3:AS3 copied to
\* the rows below when there is more than one row
update_detectors ==
  /\ gs_pc = "update_detectors"
  /\ LET dated == Update(gs_cells, DetectorsTab, "A", 1, 1, gs_run)
         data == Update(dated, DetectorsTab, "A", 3, gs_in.rows, gs_run)
     IN  gs_cells' = IF gs_in.rows > 1
                     THEN Update(data, DetectorsTab, "N", 4, gs_in.rows - 1, gs_run)
                     ELSE data
  /\ gs_touched' = gs_touched \cup {DetectorsTab}
  /\ gs_pc' = "exit"
  /\ gs_exit' = 0
  /\ UNCHANGED <<gs_env, gs_in, gs_k, gs_run, gs_cause>>

\* the export is run again, against the spreadsheet as the last run left it
run_again ==
  /\ gs_pc = "exit"
  /\ gs_run < MaxRuns
  /\ gs_run' = gs_run + 1
  /\ gs_env' \in Environments
  /\ gs_in' \in Inputs
  /\ gs_k' = 0
  /\ gs_touched' = {}
  /\ gs_exit' = -1
  /\ gs_cause' = ""
  /\ gs_pc' = "authenticate_gspread"
  /\ UNCHANGED gs_cells

SheetsNext ==
  \/ authenticate_gspread /\ UNCHANGED <<srcVars, mainVars, mitreVars>>
  \/ open_by_key /\ UNCHANGED <<srcVars, mainVars, mitreVars>>
  \/ summary_worksheet /\ UNCHANGED <<srcVars, mainVars, mitreVars>>
  \/ clear /\ UNCHANGED <<srcVars, mainVars, mitreVars>>
  \/ write_stat /\ UNCHANGED <<srcVars, mainVars, mitreVars>>
  \/ detectors_worksheet /\ UNCHANGED <<srcVars, mainVars, mitreVars>>
  \/ update_detectors /\ UNCHANGED <<srcVars, mainVars, mitreVars>>
  \/ run_again /\ UNCHANGED <<srcVars, mainVars, mitreVars>>

SpecSheets == SheetsInit /\ [][SheetsNext]_vars

Init == MainInit /\ SourcesIdle /\ SheetsIdle /\ MitreIdle

Next ==
  \/ get_page_ids /\ UNCHANGED <<srcVars, sheetVars, mitreVars>>
  \/ get_topics /\ UNCHANGED <<srcVars, sheetVars, mitreVars>>
  \/ parse_toc /\ UNCHANGED <<srcVars, sheetVars, mitreVars>>
  \/ get_reader_topic_request /\ UNCHANGED <<srcVars, sheetVars, mitreVars>>
  \/ parse_topics /\ UNCHANGED <<srcVars, sheetVars, mitreVars>>
  \/ for_t_in_topics /\ UNCHANGED <<srcVars, sheetVars, mitreVars>>
  \/ to_csv /\ UNCHANGED <<srcVars, sheetVars, mitreVars>>

Spec == Init /\ [][Next]_vars

(***************************************************************************)
(* The classifier on its own: a Required Data cell is drawn, stripped as   *)
(* the table extraction strips it, and classified.                         *)
(***************************************************************************)
MaxFrags == 3

Fragments ==
  { T["XDR Agent"], T["XTH"], T["eXtended Threat Hunting (XTH)"], T[" with "],
    T[", "], T["Okta"], T[" Audit Log"], T["AzureAD"], T["okta"] }

RECURSIVE FragSeqs(_)
FragSeqs(n) ==
  IF n = 0 THEN {<<>>}
  ELSE LET shorter == FragSeqs(n - 1)
       IN  shorter \cup {Append(fs, f) : fs \in {x \in shorter : Len(x) = n - 1},
                                         f \in Fragments}

\* the Required Data values a table can hold: stripped and non-empty
RequiredDataTexts ==
  {strip(Concat(fs)) : fs \in FragSeqs(MaxFrags)} \ {<<>>}

SourcesInit ==
  /\ MainInit
  /\ SheetsIdle
  /\ MitreIdle
  /\ rd_pc = "input"
  /\ rd_in \in RequiredDataTexts
  /\ rd_out = [k \in Range(SourceNames) |-> Unmarked]

Classify ==
  /\ rd_pc = "input"
  /\ rd_out' = Sources(rd_in)
  /\ rd_pc' = "classified"
  /\ UNCHANGED rd_in

SourcesNext == Classify /\ UNCHANGED <<mainVars, sheetVars, mitreVars>>

SpecSources == SourcesInit /\ [][SourcesNext]_vars

(***************************************************************************)
(* The tactic/technique cells: 'Name (ID)' units packed into one td, read   *)
(* by parse_topics from a Primary table and by variations() from a          *)
(* variation's table.                                                       *)
(***************************************************************************)
MaxUnits == 3

MitreUnits ==
  { T["Execution (TA0002)"], T["Initial Access (TA0001)"],
    T["Phishing: Link(T1566.002)"] }

\* what stands between two units, and around the text of the td
UnitGaps == { <<>>, T[" "], T["\n  "] }

RECURSIVE UnitSeqs(_)
UnitSeqs(n) ==
  IF n = 1 THEN { <<u>> : u \in MitreUnits }
  ELSE LET shorter == UnitSeqs(n - 1)
       IN  shorter \cup {Append(us, u) : us \in {x \in shorter : Len(x) = n - 1},
                                         u \in MitreUnits}

\* the td texts that pack the units us, gaps between them
RECURSIVE Packed(_)
Packed(us) ==
  IF Len(us) = 1 THEN { us[1] }
  ELSE { us[1] \o g \o rest : g \in UnitGaps, rest \in Packed(Tail(us)) }

\* a table with every required label whose two MITRE cells hold the text
MitreTable(text) ==
  << <<T["Severity"], T["High"]>> >> \o Periods
  \o << <<T["ATT&CK Tactic"], text>>,
        <<T["ATT&CK Technique"], text>>,
        <<T["Required Data"], T["Okta"]>> >>

MitreInit ==
  /\ MainInit
  /\ SourcesIdle
  /\ SheetsIdle
  /\ mt_pc = "input"
  /\ \E us \in UnitSeqs(MaxUnits), kind \in {"Primary", "Variation"} :
       \E packed \in Packed(us), pad \in UnitGaps :
         mt_in = [units |-> us, text |-> pad \o packed \o pad, kind |-> kind]
  /\ mt_out = [raised |-> FALSE, tactic |-> <<>>, technique |-> <<>>]

\* lines 169-198 for a Primary table, lines 311-325 for a variation's
split_mitre ==
  /\ mt_pc = "input"
  /\ \E table \in {ExtractTable(MitreTable(mt_in.text))} :
       IF mt_in.kind = "Primary"
       THEN \E r \in {ParsePrimary(T["Alert A"], table)} :
              mt_out' = IF r.raised
                        THEN [raised |-> TRUE, tactic |-> <<>>, technique |-> <<>>]
                        ELSE [raised |-> FALSE,
                              tactic |-> r.value.fixed["ATT&CK Tactic"],
                              technique |-> r.value.fixed["ATT&CK Technique"]]
       ELSE \E r \in {VariationFields(T["Alert A"], table)} :
              mt_out' = IF r.raised
                        THEN [raised |-> TRUE, tactic |-> <<>>, technique |-> <<>>]
                        ELSE [raised |-> FALSE,
                              tactic |-> r.value.tactic,
                              technique |-> r.value.technique]
  /\ mt_pc' = "split"
  /\ UNCHANGED mt_in

MitreNext == split_mitre /\ UNCHANGED <<srcVars, mainVars, sheetVars>>

SpecMitre == MitreInit /\ [][MitreNext]_vars

(***************************************************************************)
(* Properties of the classifier (checked under SpecSources)                *)
(***************************************************************************)
\* w is a contiguous piece of s
Occurs(w, s) == \E a \in 0..Len(s), b \in 0..Len(s) : SubSeq(s, a + 1, b) = w

MarkedColumns == {k \in Range(SourceNames) : rd_out[k] = X}

\* C1: a Required Data text with 'XDR Agent' and without 'XTH' marks both the
\* 'XDR Agent' column and the 'XDR Agent with eXtended Threat Hunting (XTH)'
\* column; a text with 'eXtended Threat Hunting (XTH)' marks the XTH column
\* whatever the 'XDR Agent' column holds.
C1_AgentRule ==
  rd_pc = "classified" =>
    /\ (Occurs(T["XDR Agent"], rd_in) /\ ~Occurs(T["XTH"], rd_in))
         => {XDRAgent, XDRAgentXTH} \subseteq MarkedColumns
    /\ Occurs(T["eXtended Threat Hunting (XTH)"], rd_in)
         => XDRAgentXTH \in MarkedColumns

C1_Witness ==
  /\ rd_pc = "classified"
  /\ Occurs(T["XDR Agent"], rd_in) /\ ~Occurs(T["XTH"], rd_in)
  /\ Occurs(T["Okta"], rd_in)
  /\ {XDRAgent, XDRAgentXTH} \subseteq MarkedColumns

\* C2: every column other than the two XDR Agent columns is marked exactly
\* when its name occurs, case-sensitively, in the Required Data text; the
\* text 'XDR Agent, Okta' marks 'XDR Agent', the XTH column and 'Okta' and
\* nothing else.
C2_SubstringColumns ==
  rd_pc = "classified" =>
    /\ \A k \in Range(SourceNames) \ {XDRAgent, XDRAgentXTH} :
         /\ rd_out[k] \in {X, Unmarked}
         /\ rd_out[k] = X <=> Occurs(T[k], rd_in)
    /\ rd_in = T["XDR Agent, Okta"]
         => MarkedColumns = {"XDR Agent",
                             "XDR Agent with eXtended Threat Hunting (XTH)",
                             "Okta"}

C2_Witness ==
  /\ rd_pc = "classified"
  /\ rd_in = T["XDR Agent, Okta"]
  /\ rd_out["Okta"] = X
  /\ rd_out["Okta Audit Log"] = Unmarked

(***************************************************************************)
(* Properties of main() (checked under Spec)                               *)
(***************************************************************************)
Rows == DOMAIN df.rows

IsPrimary(r) == rowInfo[r].kind = "Primary"

IsVariation(r) == rowInfo[r].kind = "Variation"

\* the nearest Primary row at or before row r, 0 when there is none
ParentOf(r) ==
  LET ps == {p \in Rows : p <= r /\ IsPrimary(p)}
  IN  IF ps = {} THEN 0 ELSE CHOOSE p \in ps : \A q \in ps : q <= p

\* the Primary row of topic n, 0 when df has none
PrimaryIndex(n) ==
  LET ps == {p \in Rows : IsPrimary(p) /\ rowInfo[p].topic = n}
  IN  IF ps = {} THEN 0 ELSE CHOOSE p \in ps : TRUE

\* parse_topics is through with topic n: it went on to the next one, or it
\* raised on this one
Handled(n) ==
  /\ n \in DOMAIN topics
  /\ \/ i > n /\ uncaught = ""
     \/ i = n /\ pc = "exit" /\ uncaught # ""

\* a row of the markup table carries the label in its first cell
HasLabel(rows, label) == \E r \in DOMAIN rows : strip(rows[r][1]) = label

\* the trimmed second cell of the first row that carries the label
CellValue(rows, label) ==
  LET r == CHOOSE q \in DOMAIN rows :
             /\ strip(rows[q][1]) = label
             /\ \A m \in DOMAIN rows : strip(rows[m][1]) = label => q <= m
  IN  strip(rows[r][2])

\* the variation links of a topic, in document order (none without a heading)
LinksOf(t) ==
  IF FindHeading(t.body) = 0 THEN <<>>
  ELSE VariationLinks(t.body, FindHeading(t.body))

\* the rows of the table that follows the b-th variation link of a topic
VariationTable(t, b) == t.body[FindNextTable(t.body, LinksOf(t)[b])].rows

\* the first table of the topic holds every label parse_topics requires, and
\* every variation link is followed by a table
PrimaryComplete(t) ==
  /\ FindNextTable(t.body, 0) # 0
  /\ \A r \in DOMAIN t.body[FindNextTable(t.body, 0)].rows :
       /\ Len(t.body[FindNextTable(t.body, 0)].rows[r]) = 2
       /\ strip(t.body[FindNextTable(t.body, 0)].rows[r][1]) # <<>>
       /\ strip(t.body[FindNextTable(t.body, 0)].rows[r][2]) # <<>>
  /\ \A l \in RequiredLabels :
       HasLabel(t.body[FindNextTable(t.body, 0)].rows, LabelText(l))
  /\ \A b \in DOMAIN LinksOf(t) : FindNextTable(t.body, LinksOf(t)[b]) # 0

VariationsComplete(t) ==
  \A b \in DOMAIN LinksOf(t), l \in VariationLabels :
     HasLabel(VariationTable(t, b), LabelText(l))

PeriodColumns ==
  {"Activation Period", "Training Period", "Test Period", "Deduplication Period"}

OverriddenColumns ==
  {"Name", "Variant of", "Severity", "ATT&CK Tactic", "ATT&CK Technique"}

\* C3: every Variation row has the four periods and every data-source column
\* of its parent Primary row, whatever its own table holds.
C3_VariationInheritance ==
  /\ Len(rowInfo) = Len(df.rows)
  /\ \A r \in Rows :
       IsVariation(r) =>
         /\ ParentOf(r) # 0
         /\ rowInfo[ParentOf(r)].topic = rowInfo[r].topic
         /\ \A c \in PeriodColumns \cup Range(SourceNames) :
              df.rows[r][c] = df.rows[ParentOf(r)][c]

\* a variation whose own table gives another Activation Period and another
\* Required Data than its parent
C3_Witness ==
  \E r \in Rows :
    /\ IsVariation(r)
    /\ df.rows[r]["Name"] = T["B with admin"]
    /\ CellValue(VariationTable(topics[rowInfo[r].topic], 1),
                 T["Activation Period"]) = T["1 Day"]
    /\ df.rows[r]["Activation Period"] = T["14 Days"]
    /\ df.rows[r]["Okta"] = Unmarked
    /\ df.rows[r][XDRAgentXTH] = X

\* C4 as stated: each variation sub-block yields a record that carries, for
\* Severity, ATT&CK Tactic and ATT&CK Technique, its own table's value when
\* the label is there and the Primary's value when it is not.
C4_OverrideOrInherit ==
  \A n \in DOMAIN topics :
    (Handled(n) /\ PrimaryComplete(topics[n])) =>
      \A b \in DOMAIN LinksOf(topics[n]) :
        /\ PrimaryIndex(n) # 0
        /\ PrimaryIndex(n) + b \in Rows
        /\ df.rows[PrimaryIndex(n) + b]["Severity"] =
             IF HasLabel(VariationTable(topics[n], b), T["Severity"])
             THEN CellValue(VariationTable(topics[n], b), T["Severity"])
             ELSE df.rows[PrimaryIndex(n)]["Severity"]
        /\ \A l \in {"ATT&CK Tactic", "ATT&CK Technique"} :
             df.rows[PrimaryIndex(n) + b][l] =
               IF HasLabel(VariationTable(topics[n], b), LabelText(l))
               THEN MitreList(CellValue(VariationTable(topics[n], b), LabelText(l)))
               ELSE df.rows[PrimaryIndex(n)][l]

\* C4 (amended): a Variation row takes its Name from the variation's link and
\* Severity, ATT&CK Tactic and ATT&CK Technique from the variation's own
\* table; every other column is the Primary's, whichever labels that table
\* holds.  A variation table without one of the three labels yields no record:
\* parse_topics raises IndexError and main ends without a table.
C4_VariationOverride ==
  /\ \A r \in Rows :
       IsVariation(r) =>
         LET t == topics[rowInfo[r].topic]
             b == r - ParentOf(r)
         IN  /\ b \in DOMAIN LinksOf(t)
             /\ df.rows[r]["Name"] = t.body[LinksOf(t)[b]].text
             /\ df.rows[r]["Variant of"] = t.title
             /\ df.rows[r]["Severity"] =
                  CellValue(VariationTable(t, b), T["Severity"])
             /\ \A l \in {"ATT&CK Tactic", "ATT&CK Technique"} :
                  df.rows[r][l] =
                    MitreList(CellValue(VariationTable(t, b), LabelText(l)))
             /\ \A c \in Range(df.columns) \ OverriddenColumns :
                  df.rows[r][c] = df.rows[ParentOf(r)][c]
  /\ \A n \in DOMAIN topics :
       (Handled(n) /\ PrimaryComplete(topics[n])
          /\ ~VariationsComplete(topics[n])) =>
         /\ pc = "exit" /\ uncaught = "IndexError" /\ exitCode = 1
         /\ df.rows = <<>>
         /\ ~csv.written

\* a variation that overrides the severity of its parent and keeps its tags
C4_Witness ==
  \E r \in Rows :
    /\ IsVariation(r)
    /\ df.rows[r]["Severity"] = T["Medium"]
    /\ df.rows[ParentOf(r)]["Severity"] = T["Low"]
    /\ HasLabel(VariationTable(topics[rowInfo[r].topic], r - ParentOf(r)),
                T["Detector Tags"])
    /\ df.rows[r]["Detector Tags"] = <<>>

\* the rows df holds for topic n
RowsOfTopic(n) == {r \in Rows : rowInfo[r].topic = n}

\* C5 as stated: every topic yields one Primary row and one Variation row for
\* each variation sub-block under its 'Variations' heading; a topic without
\* that heading yields exactly one row.
C5_RecordCount ==
  \A n \in DOMAIN topics :
    (Handled(n) /\ PrimaryComplete(topics[n]) /\ VariationsComplete(topics[n])) =>
      /\ Cardinality(RowsOfTopic(n)) = 1 + Len(LinksOf(topics[n]))
      /\ Cardinality({r \in RowsOfTopic(n) : IsPrimary(r)}) = 1

\* C6: the Primary rows are the topics in input order, each followed at once
\* by its Variation rows; a Variation's 'Variant of' is the Name of the
\* nearest Primary row before it, a Primary's 'Variant of' is ''.
C6_OutputOrder ==
  /\ Len(rowInfo) = Len(df.rows)
  /\ (pc = "for_t_in_topics" \/ csv.written) =>
       LET prims == SelectSeq([r \in Rows |-> r], IsPrimary)
       IN  /\ Len(prims) = i - 1
           /\ \A k \in DOMAIN prims :
                /\ df.rows[prims[k]]["Name"] = topics[k].title
                /\ rowInfo[prims[k]].topic = k
  /\ \A r \in Rows :
       /\ IsPrimary(r) => df.rows[r]["Variant of"] = <<>>
       /\ IsVariation(r) =>
            /\ ParentOf(r) # 0
            /\ rowInfo[r].topic = rowInfo[ParentOf(r)].topic
            /\ df.rows[r]["Variant of"] = df.rows[ParentOf(r)]["Name"]
       /\ r > 1 => rowInfo[r - 1].topic <= rowInfo[r].topic
  /\ csv.written => csv.table = df

\* the written table of two topics, the first with two variations
C6_Witness ==
  /\ csv.written
  /\ Len(topics) = 2
  /\ Len(csv.table.rows) = 4
  /\ [r \in Rows |-> rowInfo[r].kind] =
       <<"Primary", "Variation", "Variation", "Primary">>
  /\ csv.table.rows[3]["Variant of"] = T["Alert B"]
  /\ csv.table.rows[4]["Name"] = T["Alert A"]

\* the function of main() that issues each request, and those that follow it
Issuer(r) ==
  CASE r = "pretty-url" -> "get_page_ids"
    [] r = "toc" -> "get_topics"
    [] r = "topics" -> "get_reader_topic_request"

\* C7 as stated: a response whose status is not 200 (and that carries an error
\* payload) has the payload reported and ends the process with a non-zero
\* status before a later stage of main() runs.
C7_TransportFatal ==
  \A r \in Requests :
    (resp[r].status \notin {0, 200} /\ resp[r].body # "not_json") =>
      /\ pc = "exit"
      /\ exitCode # 0
      /\ r \in printed
      /\ ran[Len(ran)] = Issuer(r)

\* C8: a primary table without a 'Detection Modules' or 'Detector Tags' row
\* leaves that field '' and raises nothing; the first row that carries the
\* label with a value gives the field that value.
OptionalLabels == {"Detection Modules", "Detector Tags"}

\* the stripped, non-empty cells of each row, as parse_topics looks at them
SeenRows(t) == ExtractTable(t.body[FindNextTable(t.body, 0)].rows)

Carries(row, label) == row # <<>> /\ row[1] = label

C8_OptionalLabels ==
  /\ \A n \in DOMAIN topics :
       PrimaryIndex(n) # 0 =>
         \A l \in OptionalLabels :
           LET carrying == SelectSeq(SeenRows(topics[n]),
                                     LAMBDA row : Carries(row, LabelText(l)))
               field == df.rows[PrimaryIndex(n)][l]
           IN  /\ carrying = <<>> => field = <<>>
               /\ (carrying # <<>> /\ Len(carrying[1]) >= 2)
                    => field = carrying[1][2]
               /\ field # NaN
  /\ \A n \in DOMAIN topics :
       (/\ Handled(n)
        /\ PrimaryComplete(topics[n])
        /\ \A l \in OptionalLabels :
             ~HasLabel(topics[n].body[FindNextTable(topics[n].body, 0)].rows,
                       LabelText(l))
        /\ (In(T["Variations"], SoupText(topics[n].body))
              => (FindHeading(topics[n].body) # 0
                    /\ VariationsComplete(topics[n]))))
         => /\ uncaught = ""
            /\ PrimaryIndex(n) # 0

\* a topic without either optional label, followed by a topic that has both
C8_Witness ==
  /\ csv.written
  /\ Len(topics) = 2
  /\ \A l \in OptionalLabels :
       /\ ~HasLabel(topics[1].body[FindNextTable(topics[1].body, 0)].rows,
                    LabelText(l))
       /\ df.rows[PrimaryIndex(1)][l] = <<>>
  /\ df.rows[PrimaryIndex(2)]["Detector Tags"] = T["EDR"]
  /\ df.rows[PrimaryIndex(2)]["Detection Modules"] = T["Identity Analytics"]

\* C9 as stated: the written table has the columns Name, Variant of, Severity,
\* the four periods, Detection Modules, Detector Tags, ATT&CK Tactic, ATT&CK
\* Technique, Required Data and then the data-source columns.
C9_ColumnsWithRequiredData ==
  csv.written =>
    csv.table.columns =
      << "Name", "Variant of", "Severity", "Activation Period",
         "Training Period", "Test Period", "Deduplication Period",
         "Detection Modules", "Detector Tags", "ATT&CK Tactic",
         "ATT&CK Technique", "Required Data" >> \o SourceNames

\* C9 (amended): the written table has, for any input, the columns Name,
\* Variant of, Severity, the four periods, Detection Modules, Detector Tags,
\* ATT&CK Tactic, ATT&CK Technique and then one column for each data source in
\* taxonomy order; there is no Required Data column.
C9_FixedColumns ==
  /\ csv.written =>
       /\ csv.table.columns =
            << "Name", "Variant of", "Severity", "Activation Period",
               "Training Period", "Test Period", "Deduplication Period",
               "Detection Modules", "Detector Tags", "ATT&CK Tactic",
               "ATT&CK Technique",
               "AWS Audit Log", "AWS Flow Log", "AWS OCSF Flow Logs",
               "Azure Audit Log", "Azure Flow Log", "Azure SignIn Log",
               "AzureAD", "AzureAD Audit Log", "Box Audit Log", "DropBox",
               "Duo", "Gcp Audit Log", "Gcp Flow Log",
               "Google Workspace Audit Logs",
               "Google Workspace Authentication", "Health Monitoring Data",
               "Office 365 Audit", "Okta", "Okta Audit Log", "OneLogin",
               "Palo Alto Networks Global Protect",
               "Palo Alto Networks Platform Logs",
               "Palo Alto Networks Url Logs", "PingOne",
               "Third-Party Firewalls", "Third-Party VPNs",
               "Windows Event Collector", "XDR Agent",
               "XDR Agent with eXtended Threat Hunting (XTH)" >>
       /\ \A r \in DOMAIN csv.table.rows :
            /\ DOMAIN csv.table.rows[r] = Range(csv.table.columns)
            /\ \A c \in Range(csv.table.columns) : csv.table.rows[r][c] # NaN
  /\ ~csv.written => csv.table = NoFrame

\* a written table of several rows, and one of none
C9_Witness ==
  /\ csv.written
  /\ Len(csv.table.rows) >= 3
  /\ Len(csv.table.columns) = 40

\* C10: a run of write_to_google_sheets that ends on a configuration error
\* (GOOGLE_SHEET_ID empty, 'Summary Statistics' missing, 'All Detectors'
\* missing) has reported it, exits with a non-zero status, and has neither
\* cleared nor written any worksheet of the spreadsheet.
C10_NoPartialOutput ==
  (gs_pc = "exit"
     /\ gs_cause \in {"no_sheet_id", "summary_missing", "detectors_missing"})
  => /\ gs_exit # 0
     /\ gs_touched = {}

\* C11: each destination worksheet is cleared before it is written, so when
\* a run of write_to_google_sheets has ended successfully every cell of the
\* data area of 'Summary Statistics' and of 'All Detectors' is empty or was
\* written by that run: no row of an earlier, longer run remains.
C11_OnlyLatestRun ==
  (gs_pc = "exit" /\ gs_exit = 0)
  => \A c \in Cells : gs_cells[c] \in {0, gs_run}

\* the first table of the topic has no cell that reads as one of the
\* required labels
LacksRequired(t) ==
  /\ FindNextTable(t.body, 0) # 0
  /\ \E l \in RequiredLabels :
       \A r \in DOMAIN t.body[FindNextTable(t.body, 0)].rows :
         \A c \in DOMAIN t.body[FindNextTable(t.body, 0)].rows[r] :
           strip(t.body[FindNextTable(t.body, 0)].rows[r][c]) # LabelText(l)

\* C12: the CSV file is written only when every topic has been extracted,
\* and holds the whole table; a run that ends on an error, in particular on
\* a topic whose primary table lacks a required label, returns no record of
\* any topic and writes no file.
C12_AllOrNothing ==
  /\ csv.written =>
       /\ pc = "exit" /\ exitCode = 0 /\ uncaught = ""
       /\ i > Len(topics)
       /\ csv.table = df
       /\ \A n \in DOMAIN topics :
            PrimaryIndex(n) # 0 /\ ~ParseTopic(topics[n]).raised
  /\ (pc = "exit" /\ exitCode # 0) =>
       /\ ~csv.written
       /\ df = NoFrame
       /\ \A k \in DOMAIN ran : ran[k] # "to_csv"
  /\ (\E n \in DOMAIN topics : LacksRequired(topics[n])) =>
       /\ ~csv.written
       /\ pc = "exit" => exitCode = 1 /\ uncaught # "" /\ df = NoFrame

\* the second topic lacks a required label after the first was extracted:
\* the run ends on the IndexError with no table and no file
C12_Witness ==
  /\ pc = "exit"
  /\ uncaught = "IndexError"
  /\ i = 2
  /\ LacksRequired(topics[2])
  /\ ~LacksRequired(topics[1])
  /\ df = NoFrame
  /\ ~csv.written

\* the characters of a text that are not white space
NoSpace(text) == SelectSeq(text, LAMBDA ch : ~IsSpace(ch))

\* C13: a cell that packs 'Name (ID)' units, with or without white space
\* between them, splits into exactly those units in their order, for the
\* tactic and the technique, in a Primary table and in a variation's table
\* alike; no fragment is empty or a lone ')', and the fragments put together
\* are the cell text but for the white space between the units.
C13_SplitLossless ==
  mt_pc = "split" =>
    /\ ~mt_out.raised
    /\ mt_out.tactic = mt_in.units
    /\ mt_out.technique = mt_in.units
    /\ \A k \in DOMAIN mt_out.tactic :
         mt_out.tactic[k] # <<>> /\ mt_out.tactic[k] # T[")"]
    /\ NoSpace(Concat(mt_out.tactic)) = NoSpace(mt_in.text)

\* three units read from a variation's table, the first two packed without
\* a gap, the third after a line break
C13_Witness ==
  /\ mt_pc = "split"
  /\ mt_in.kind = "Variation"
  /\ Len(mt_in.units) = 3
  /\ mt_in.text = mt_in.units[1] \o mt_in.units[2] \o T["\n  "] \o mt_in.units[3]
  /\ mt_out.tactic = mt_in.units

\* the rows of the first table of a topic, as the markup has them
PrimaryTable(t) == t.body[FindNextTable(t.body, 0)].rows

\* the labels whose value goes into the record as it was read
PlainLabels == {"Severity"} \cup PeriodColumns

\* C14: a field of a record is the trimmed second cell of a row of at least
\* two cells whose trimmed first cell is the field's label, for a Primary
\* table and for a variation's table, empty and blank cells included: no
\* other cell of a row serves as the label or as the value.
C14_FirstTwoCells ==
  /\ \A r \in Rows :
       IsPrimary(r) =>
         \A l \in PlainLabels :
           \E q \in DOMAIN PrimaryTable(topics[rowInfo[r].topic]) :
             LET row == PrimaryTable(topics[rowInfo[r].topic])[q]
             IN  /\ Len(row) >= 2
                 /\ strip(row[1]) = LabelText(l)
                 /\ strip(row[2]) = df.rows[r][l]
  /\ \A r \in Rows :
       IsVariation(r) =>
         \E b \in DOMAIN LinksOf(topics[rowInfo[r].topic]) :
           \E q \in DOMAIN VariationTable(topics[rowInfo[r].topic], b) :
             LET row == VariationTable(topics[rowInfo[r].topic], b)[q]
             IN  /\ Len(row) >= 2
                 /\ strip(row[1]) = T["Severity"]
                 /\ strip(row[2]) = df.rows[r]["Severity"]

\* C15: the test for 'XTH' and the test for 'eXtended Threat Hunting (XTH)'
\* agree, so a Required Data text that mentions 'XDR Agent' marks at least
\* one of the columns 'XDR Agent' and 'XDR Agent with eXtended Threat Hunting
\* (XTH)'.
C15_AgentMarksAColumn ==
  (rd_pc = "classified" /\ Occurs(T["XDR Agent"], rd_in))
  => (XDRAgent \in MarkedColumns \/ XDRAgentXTH \in MarkedColumns)

============================================================================
